---- MODULE Spec2Model ----
(***************************************************************************)
(* State-machine model of pyrobbot.chat.Chat: construction (__init__,      *)
(* from_cache), the reply generator (respond_user_prompt /                 *)
(* respond_system_prompt -> _respond_prompt -> yield_response_from_msg),   *)
(* clear_cache / save_cache and the finalizer __del__.                     *)
(*                                                                         *)
(* Text (message content, reply chunks) is a sequence of one-character     *)
(* strings, so that strip() and += concatenation are computed.             *)
(* Collaborators that live outside chat.py (context handlers, token        *)
(* counter, token-usage database, ChatOptions) are modelled from their     *)
(* documented contract.                                                    *)
(***************************************************************************)
EXTENDS Integers, Sequences, FiniteSets, TLC

\* ------------------------------------------------------------------ bounds
\* respond calls made on one session
MaxCalls == 2
\* direct calls of __del__() made on a live session before the finalizer
MaxExplicitDel == 1
\* history entries an embedding-based selection may return (top-K)
MaxSelected == 1

\* ------------------------------------------------------------- vocabulary
MODEL == "gpt-3.5-turbo"
FullHistory == "full-history"
Embedding == "text-embedding-ada-002"
UnknownModel == "unknown-model"
ModelNames == {MODEL, FullHistory, Embedding, UnknownModel}

\* cache directories: the per-session default (CHAT_CACHE_DIR/chat_<uuid>,
\* never present before the session) and a directory named by the caller
DefaultDir == "default"
UserDir == "user"
DirIds == {DefaultDir, UserDir}

\* raw prompts handed to respond_user_prompt and to respond_system_prompt
\* (both need strip())
Prompts == { <<" ", "O", "k", "?", " ">> }
SystemPrompts == { <<"B", "e", " ">> }

\* what the upstream streaming call can deliver: chunks, then either the
\* normal end of the stream or an error raised by the call
Upstreams ==
    { [chunks |-> <<>>, fail |-> FALSE],
      [chunks |-> << <<"H", "i">>, <<" ", "y", "o", "u">> >>, fail |-> FALSE],
      [chunks |-> << <<"N", "o">> >>, fail |-> TRUE] }

\* ------------------------------------------------------------ text helpers
IsSpace(c) == c = " "

RECURSIVE LStrip(_)
LStrip(s) == IF s # <<>> /\ IsSpace(Head(s)) THEN LStrip(Tail(s)) ELSE s

RECURSIVE RStrip(_)
RStrip(s) ==
    IF s # <<>> /\ IsSpace(s[Len(s)]) THEN RStrip(SubSeq(s, 1, Len(s) - 1)) ELSE s

\* str.strip()
Strip(s) == RStrip(LStrip(s))

\* role.lower().strip() on the two role literals the public callers pass
LowerStrip(role) ==
    CASE role = "user" -> "user"
      [] role = "system" -> "system"

\* ------------------------------------------------- configuration and disk
\* ChatOptions fields the model tracks
Cfg(cm, pm, cd) == [context_model |-> cm, private_mode |-> pm, cache_dir |-> cd]

\* ChatOptions(): the defaults (cache_dir None)
DefaultCfg == Cfg(Embedding, FALSE, "None")

\* the cache_dir setter: None -> CHAT_CACHE_DIR / chat_<id>
ResolveDir(value) == IF value = "None" THEN DefaultDir ELSE value

\* content of configs.json: kind is absent, malformed (not JSON), invalid
\* (JSON that ChatOptions rejects) or valid (then val is the configuration)
NoFile == [kind |-> "absent", val |-> DefaultCfg]
BadJson == [kind |-> "malformed", val |-> DefaultCfg]
BadCfg == [kind |-> "invalid", val |-> DefaultCfg]
CfgFile(c) == [kind |-> "valid", val |-> c]

\* a directory: configs.json, metadata.json (absent / malformed / a JSON
\* text) and the embedding strategy's store file embeddings.db
Dir(e, c, m, db) == [exists |-> e, configs |-> c, metadata |-> m, embeddings |-> db]
AbsentDir == Dir(FALSE, NoFile, "absent", FALSE)
EmptyDir == Dir(TRUE, NoFile, "absent", FALSE)

\* next(cache_dir.iterdir(), False) is falsy: the directory has no entry
NoEntries(d) == d.configs.kind = "absent" /\ d.metadata = "absent" /\ ~d.embeddings

\* what the caller's directory may hold before the session is constructed
InitialUserDirs ==
    { AbsentDir,
      EmptyDir,
      Dir(TRUE, CfgFile(Cfg(FullHistory, FALSE, UserDir)), "{k:v}", FALSE),
      Dir(TRUE, BadJson, "malformed", FALSE),
      Dir(TRUE, BadCfg, "absent", FALSE) }

\* configurations handed to Chat(configs)
InitConfigs ==
    { Cfg(cm, pm, cd) : cm \in {FullHistory, Embedding, UnknownModel},
                        pm \in BOOLEAN, cd \in {"None", UserDir} }

\* ---------------------------------------------------------------- messages
Msg(role, content) == [role |-> role, content |-> content]

\* Chat.base_directive: a system message carrying the joined instructions
base_directive ==
    [role |-> "system", name |-> "system", content |-> <<"Y", "o", "u">>]

\* get_n_tokens_from_msgs: deterministic in the message list; every message
\* costs one token of framing plus one per character of content
RECURSIVE get_n_tokens_from_msgs(_)
get_n_tokens_from_msgs(messages) ==
    IF messages = <<>> THEN 0
    ELSE 1 + Len(Head(messages).content) + get_n_tokens_from_msgs(Tail(messages))

\* the values counted instead of added up
CountsValues(usage) == Cardinality(DOMAIN usage)

\* sum(tokens_usage.values())
SumValues(usage) == usage.input + usage.output

ZeroUsage == [input |-> 0, output |-> 0]

\* -------------------------------------------------------- context handlers
\* a history entry is the msg_list [prompt_msg, reply_msg] handed to
\* add_to_history; Flatten lists the messages of the entries, oldest first
RECURSIVE Flatten(_)
Flatten(h) == IF h = <<>> THEN <<>> ELSE Head(h) \o Flatten(Tail(h))

\* FullHistoryChatContext.get_context: every stored entry, no token cost
FullHistoryGetContext(h, msg) ==
    [context_messages |-> Flatten(h), tokens_usage |-> ZeroUsage]

Min(a, b) == IF a < b THEN a ELSE b

\* orders of distinct entries a similarity search may select (at most top-K)
Selections(h) ==
    UNION { { s \in [1..n -> 1..Len(h)] : \A i, j \in 1..n : i # j => s[i] # s[j] } :
            n \in 0..Min(MaxSelected, Len(h)) }

\* EmbeddingBasedChatContext.get_context: the selected entries in similarity
\* order, costing the embedding call for the query (nothing on an empty store)
EmbeddingGetContexts(h, msg) ==
    { [context_messages |-> Flatten([i \in 1..Len(sel) |-> h[sel[i]]]),
       tokens_usage |-> [input |-> IF h = <<>> THEN 0 ELSE get_n_tokens_from_msgs(<<msg>>),
                         output |-> 0]] : sel \in Selections(h) }

\* context_handler.get_context(msg=...): the responses the bound strategy may give
GetContexts(cm, h, msg) ==
    IF cm = FullHistory THEN {FullHistoryGetContext(h, msg)} ELSE EmbeddingGetContexts(h, msg)

\* context_handler.add_to_history(msg_list=...): the store after the append
add_to_history(h, msg_list) == Append(h, msg_list)

\* ... and the token usage it reports (the embedding call of the exchange)
AddToHistoryCost(cm, msg_list) ==
    IF cm = FullHistory THEN ZeroUsage
    ELSE [input |-> get_n_tokens_from_msgs(msg_list), output |-> 0]

\* whether the strategy's store can be opened: the in-memory log always, the
\* store file of the cache directory only if the directory is there, and
\* even then the open may fail
StoreOutcomes(cm, dir) ==
    IF cm = FullHistory THEN {TRUE} ELSE IF dir.exists THEN {TRUE, FALSE} ELSE {FALSE}

\* the store opened for this exchange is still there for the append
StoreReachable(cm, dir) == cm = FullHistory \/ dir.exists

\* TokenUsageDatabase.insert_data: the cumulative row of the model grows
insert_data(db, model, n_input_tokens, n_output_tokens) ==
    [db EXCEPT ![model] = [input |-> @.input + n_input_tokens,
                           output |-> @.output + n_output_tokens]]

\* ------------------------------------------------------------------- state
VARIABLES
    pc,                      \* "new", "active", "closed", "init_failed", "none", "gone",
                             \*   "reopened"; inside start(): "started"; after it:
                             \*   "interrupted", "exited"
    via,                     \* how the session was constructed
    cfg,                     \* the session's configuration fields
    token_usage,             \* self.token_usage: model -> {input, output}
    history,                 \* the context handler's store
    metadata,                \* self._metadata ("unloaded" until first access)
    error,                   \* the last exception a caller received
    disk,                    \* cache directories
    ledger,                  \* the durable token-usage database
    gen_pc,                  \* reply generator: "none", "created", "streaming",
                             \*   "done", "failed", "closed"
    args,                    \* arguments of the respond call
    prompt_msg,              \* _respond_prompt's prompt_as_msg
    prompt_context_request,  \* what get_context returned
    conversation,            \* the message list handed to the streaming call
    upstream,                \* what the streaming call has yet to deliver
    upstream0,               \* what the streaming call had to deliver when issued
    upstream_ended,          \* the streaming call signalled its end
    full_reply_content,      \* chunks accumulated so far
    yielded,                 \* chunks delivered to the consumer, in order
    tu0, hist0,              \* token_usage and history when respond was called
    prior,                   \* the exchanges of the earlier respond calls that were
                             \*   drained with add_to_history set, in order
    calls,                   \* respond calls made
    explicit_dels,           \* direct __del__() calls made
    del_runs,                \* runs of __del__ (direct or by the finalizer)
    del_info,                \* the last run of __del__: state before, branch, outcome
    reloaded,                \* outcome of from_cache on the directory of the session
                             \*   that is gone
    disk0                    \* the disk before construction

sessVars == <<pc, via, cfg, metadata>>
genVars == <<gen_pc, args, prompt_msg, prompt_context_request, conversation, upstream,
             upstream0, upstream_ended, full_reply_content, yielded, tu0, hist0, prior, calls>>
delVars == <<explicit_dels, del_runs, del_info, reloaded>>
vars == <<pc, via, cfg, token_usage, history, metadata, error, disk, ledger,
          gen_pc, args, prompt_msg, prompt_context_request, conversation, upstream,
          upstream0, upstream_ended, full_reply_content, yielded, tu0, hist0, prior, calls,
          explicit_dels, del_runs, del_info, reloaded, disk0>>

NoUsage == [m \in ModelNames |-> ZeroUsage]
NoMsg == Msg("none", <<>>)
NoArgs == [prompt |-> <<>>, role |-> "none", add_to_history |-> FALSE]
NoRequest == [context_messages |-> <<>>, tokens_usage |-> ZeroUsage]
NoUpstream == [chunks |-> <<>>, fail |-> FALSE]
NoReload == [kind |-> "none", cfg |-> DefaultCfg, error |-> "none"]
NoDel == [pre |-> AbsentDir, branch |-> "none", raised |-> "none", fault |-> "none",
          events |-> <<>>]

Init ==
    /\ pc = "new"
    /\ via = "none"
    /\ cfg = DefaultCfg
    /\ token_usage = NoUsage
    /\ history = <<>>
    /\ metadata = "unloaded"
    /\ error = "none"
    /\ \E d \in InitialUserDirs : disk = [x \in DirIds |-> IF x = UserDir THEN d ELSE AbsentDir]
    /\ ledger = NoUsage
    /\ gen_pc = "none"
    /\ args = NoArgs
    /\ prompt_msg = NoMsg
    /\ prompt_context_request = NoRequest
    /\ conversation = <<>>
    /\ upstream = NoUpstream
    /\ upstream0 = NoUpstream
    /\ upstream_ended = FALSE
    /\ full_reply_content = <<>>
    /\ yielded = <<>>
    /\ tu0 = NoUsage
    /\ hist0 = <<>>
    /\ prior = <<>>
    /\ calls = 0
    /\ explicit_dels = 0
    /\ del_runs = 0
    /\ del_info = NoDel
    /\ reloaded = NoReload
    /\ disk0 = disk

\* ------------------------------------------------------------ construction
\* the context models __init__ binds a handler for
Registry == {FullHistory, Embedding}

\* Chat.__init__(configs): copy the fields, create the cache directory, set
\* up token accounting, bind the context handler or raise
Construct(c) ==
    LET d == ResolveDir(c.cache_dir) IN
    /\ cfg' = [c EXCEPT !.cache_dir = d]
    /\ disk' = [disk EXCEPT ![d].exists = TRUE]
    /\ token_usage' = NoUsage
    /\ IF c.context_model \in Registry
       THEN pc' = "active" /\ error' = "none"
       ELSE pc' = "init_failed" /\ error' = "NotImplementedError"

\* an exception left the constructor call before any object was made
NoSession(e) ==
    /\ pc' = "none"
    /\ error' = e
    /\ UNCHANGED <<cfg, disk, token_usage>>

\* Chat(configs); a session of the default directory never touches the
\* caller's directory, so it is explored with that directory absent only; a
\* session of the caller's directory finds it absent or left by a session
ChatInit ==
    /\ pc = "new"
    /\ \E c \in InitConfigs :
         /\ c.cache_dir = "None" => disk[UserDir] = AbsentDir
         /\ c.cache_dir = UserDir => disk[UserDir].configs.kind \in {"absent", "valid"}
         /\ c.cache_dir = UserDir => disk[UserDir] # EmptyDir
         /\ Construct(c)
    /\ via' = "init"
    /\ UNCHANGED <<history, metadata, ledger, genVars, delVars, disk0>>

\* Chat.from_cache(cache_dir) on the caller's directory
from_cache ==
    /\ pc = "new"
    /\ via' = "from_cache"
    /\ LET f == disk[UserDir].configs IN
       CASE f.kind = "absent" -> Construct(DefaultCfg)
         [] f.kind = "malformed" -> NoSession("JSONDecodeError")
         [] f.kind = "invalid" -> NoSession("ValidationError")
         [] f.kind = "valid" -> Construct(f.val)
    /\ UNCHANGED <<history, metadata, ledger, genVars, delVars, disk0>>

\* ----------------------------------------------------------------- respond
\* _respond_prompt: the message built from the prompt and the role
prompt_as_msg(prompt, role) == Msg(LowerStrip(role), Strip(prompt))

\* the respond call that is over: the prompt it was given and the reply it
\* delivered to its consumer
Exchange ==
    <<prompt_as_msg(args.prompt, args.role), Msg("assistant", full_reply_content)>>

\* the respond call that is over ran to the end of its stream and had
\* add_to_history set
DrainedForHistory == gen_pc = "done" /\ args.add_to_history

\* respond_user_prompt / respond_system_prompt -> _respond_prompt: calling a
\* generator function runs none of its body; the arguments are kept
CallRespond(role, p, add) ==
    /\ gen_pc \notin {"created", "streaming"}
    /\ calls < MaxCalls
    /\ gen_pc' = "created"
    /\ args' = [prompt |-> p, role |-> role, add_to_history |-> add]
    /\ calls' = calls + 1
    /\ tu0' = token_usage
    /\ hist0' = history
    /\ prior' = IF DrainedForHistory THEN Append(prior, Exchange) ELSE prior
    /\ prompt_msg' = NoMsg
    /\ prompt_context_request' = NoRequest
    /\ conversation' = <<>>
    /\ upstream' = NoUpstream
    /\ upstream0' = NoUpstream
    /\ upstream_ended' = FALSE
    /\ full_reply_content' = <<>>
    /\ yielded' = <<>>
    /\ error' = "none"
    /\ UNCHANGED <<sessVars, token_usage, history, disk, ledger, delVars, disk0>>

\* a respond call made by the owner of the session
Respond(role, p, add) == pc = "active" /\ CallRespond(role, p, add)

respond_user_prompt == \E p \in Prompts, add \in BOOLEAN : Respond("user", p, add)

respond_system_prompt == \E p \in SystemPrompts, add \in BOOLEAN : Respond("system", p, add)

\* a counter assigned instead of incremented
SetTokens(tu, model, kind, n) == [tu EXCEPT ![model][kind] = n]

\* self.token_usage[model][kind] += n
AddTokens(tu, model, kind, n) == [tu EXCEPT ![model][kind] = @ + n]

\* the prompt placed before the context
PromptBeforeContext(directive, context, msg) == <<directive, msg>> \o context

\* contextualised_prompt = [self.base_directive, *context, prompt_msg]
ContextualisedPrompt(directive, context, msg) == <<directive>> \o context \o <<msg>>

\* the reply placed before the prompt
ReplyBeforePrompt(msg, reply_content) == <<Msg("assistant", reply_content), msg>>

\* the msg_list committed to the history for an exchange
HistoryEntry(msg, reply_content) == <<msg, Msg("assistant", reply_content)>>

\* the chunk assigned to the reply instead of appended to it
KeepsLastChunk(reply_content, chunk) == chunk

\* full_reply_content += chunk
Accumulate(reply_content, chunk) == reply_content \o chunk

\* the text accumulated so far handed out in place of the chunk
YieldsAccumulated(reply_content, chunk) == reply_content

\* yield chunk: what the consumer receives for a chunk
YieldValue(reply_content, chunk) == chunk

\* the loop left after the first chunk of a longer stream
LoopEndsAfterFirstChunk(ups) == ~ups.fail /\ Len(ups.chunks) <= 1

\* the loop treating an error of the streaming call as its end
LoopEndsOnError(ups) == ups.chunks = <<>>

\* the for loop over the streaming call ends: the call signalled its end
LoopEnds(ups) == ups.chunks = <<>> /\ ~ups.fail

\* the streaming call raises instead of delivering
UpstreamRaises(ups) == ups.chunks = <<>> /\ ups.fail

\* the exchange never committed
CommitsNever(add) == FALSE

\* the exchange committed whatever add_to_history says
CommitsAlways(add) == TRUE

\* if add_to_history: the commit to the history is asked for
CommitsToHistory(add) == add

\* the prompt charged to the primary model before the generator raises
GenRaiseCharged(e, tu) ==
    /\ gen_pc' = "failed"
    /\ error' = e
    /\ token_usage' = AddTokens(tu, MODEL, "input", get_n_tokens_from_msgs(<<prompt_msg'>>))
    /\ UNCHANGED <<history, disk>>

\* the generator raises e out of next(): nothing after the raise runs
GenRaise(e, tu) ==
    /\ gen_pc' = "failed"
    /\ error' = e
    /\ token_usage' = tu
    /\ UNCHANGED <<history, disk>>

\* after the loop: output accounting, then the commit to the history
Finish(tu, reply_content) ==
    LET reply_as_msg == Msg("assistant", reply_content)
        tu_out == AddTokens(tu, MODEL, "output", get_n_tokens_from_msgs(<<reply_as_msg>>))
        cm == cfg.context_model
        d == cfg.cache_dir
        msg_list == HistoryEntry(prompt_msg', reply_content)
    IN  IF CommitsToHistory(args.add_to_history)
        THEN   IF StoreReachable(cm, disk[d])
               THEN /\ history' = add_to_history(history, msg_list)
                    /\ token_usage' = AddTokens(tu_out, cm, "output",
                                                SumValues(AddToHistoryCost(cm, msg_list)))
                    /\ disk' = IF cm = Embedding
                               THEN [disk EXCEPT ![d].embeddings = TRUE]
                               ELSE disk
                    /\ gen_pc' = "done"
                    /\ error' = error
               ELSE GenRaise("ContextStoreUnavailable", tu_out)
        ELSE /\ token_usage' = tu_out
             /\ gen_pc' = "done"
             /\ UNCHANGED <<history, disk, error>>

\* from the for statement to the next yield, to the end of the generator, or
\* to the exception that leaves it
Pull(tu, ups, reply_content, delivered) ==
    IF LoopEnds(ups)
    THEN /\ Finish(tu, reply_content)
         /\ upstream_ended' = (ups.chunks = <<>> /\ ~ups.fail)
         /\ upstream' = ups
         /\ full_reply_content' = reply_content
         /\ yielded' = delivered
    ELSE IF UpstreamRaises(ups)
    THEN /\ GenRaise("UpstreamCommunicationError", tu)
         /\ upstream_ended' = FALSE
         /\ upstream' = ups
         /\ full_reply_content' = reply_content
         /\ yielded' = delivered
    ELSE /\ full_reply_content' = Accumulate(reply_content, Head(ups.chunks))
         /\ yielded' = Append(delivered, YieldValue(full_reply_content', Head(ups.chunks)))
         /\ upstream' = [ups EXCEPT !.chunks = Tail(@)]
         /\ upstream_ended' = FALSE
         /\ gen_pc' = "streaming"
         /\ token_usage' = tu
         /\ UNCHANGED <<history, disk, error>>

\* the consumer's first next(): the body runs from its top to the first yield
GenStart ==
    /\ gen_pc = "created"
    /\ prompt_msg' = prompt_as_msg(args.prompt, args.role)
    /\ \E ok \in StoreOutcomes(cfg.context_model, disk[cfg.cache_dir]) :
         IF ~ok
         THEN /\ GenRaise("ContextStoreUnavailable", token_usage)
              /\ UNCHANGED <<prompt_context_request, conversation, upstream, upstream0,
                             upstream_ended, full_reply_content, yielded>>
         ELSE \E req \in GetContexts(cfg.context_model, history, prompt_msg'),
                 ups \in Upstreams :
              LET context == req.context_messages
                  tu_ctx == AddTokens(token_usage, cfg.context_model, "input",
                                      SumValues(req.tokens_usage))
                  contextualised_prompt ==
                      ContextualisedPrompt(base_directive, context, prompt_msg')
                  tu_in == AddTokens(tu_ctx, MODEL, "input",
                                     get_n_tokens_from_msgs(contextualised_prompt))
              IN  /\ prompt_context_request' = req
                  /\ conversation' = contextualised_prompt
                  /\ upstream0' = ups
                  /\ Pull(tu_in, ups, <<>>, <<>>)
    /\ UNCHANGED <<sessVars, ledger, args, tu0, hist0, prior, calls, delVars, disk0>>

\* a later next(): the body resumes after the yield
GenNext ==
    /\ gen_pc = "streaming"
    /\ prompt_msg' = prompt_msg
    /\ Pull(token_usage, upstream, full_reply_content, yielded)
    /\ UNCHANGED <<sessVars, ledger, args, prompt_context_request, conversation, upstream0,
                   tu0, hist0, prior, calls, delVars, disk0>>

\* the consumer drops or closes the generator before it is exhausted
GenClose ==
    /\ gen_pc \in {"created", "streaming"}
    /\ gen_pc' = "closed"
    /\ UNCHANGED <<sessVars, token_usage, history, error, disk, ledger, args, prompt_msg,
                   prompt_context_request, conversation, upstream, upstream0,
                   upstream_ended, full_reply_content, yielded, tu0, hist0, prior, calls,
                   delVars, disk0>>

\* ---------------------------------------------------------------- teardown
\* the metadata property: loaded from metadata.json on first access, {} if
\* the file is missing or is not JSON
LoadedMetadata(cached, file) ==
    IF cached # "unloaded" THEN cached
    ELSE IF file \in {"absent", "malformed"} THEN "{}" ELSE file

\* the ways a write to the disk may go wrong while save_cache runs
Faults == {"none", "configs", "metadata"}

\* Chat.save_cache under a fault: configs.export, then the metadata property,
\* then json.dump into metadata.json opened for writing. The value is the
\* directory, self._metadata and the exception that leaves the call.
save_cache(dir, cached, fault) ==
    IF ~dir.exists
    THEN [dir |-> dir, metadata |-> cached, raised |-> "FileNotFoundError"]
    ELSE IF fault = "configs"
    THEN [dir |-> dir, metadata |-> cached, raised |-> "OSError"]
    ELSE LET md == LoadedMetadata(cached, dir.metadata)
             written == [dir EXCEPT !.configs = CfgFile(cfg)]
         IN  IF fault = "metadata"
             THEN [dir |-> [written EXCEPT !.metadata = "malformed"], metadata |-> md,
                   raised |-> "OSError"]
             ELSE [dir |-> [written EXCEPT !.metadata = md], metadata |-> md,
                   raised |-> "none"]

\* the files removed and the directory itself left in place
ClearKeepsDirectory(dir) == EmptyDir

\* Chat.clear_cache: shutil.rmtree(cache_dir, ignore_errors=True)
clear_cache(dir) == AbsentDir

\* cache_empty of __del__
CacheEmpty(dir) == dir.exists /\ NoEntries(dir)

\* __del__ takes the clear_cache branch
ClearsCache(private_mode, dir) == private_mode \/ CacheEmpty(dir)

\* the models whose usage __del__ stores, in order
FlushedModels == <<MODEL, cfg.context_model>>

\* the clear-or-save step placed before the usage is stored
CacheStepFirst == <<"cache", "flush">>

\* the two steps of Chat.__del__ in the order of its statements
DelSteps == <<"flush", "cache">>

\* one step of __del__ as it is recorded: an insert_data call with the counts
\* it carries, or the clear_cache / save_cache call
InsertEvent(m) == [op |-> "insert", model |-> m, usage |-> token_usage[m]]
CacheEvent(branch) == [op |-> branch, model |-> "none", usage |-> ZeroUsage]

\* the calls one run of __del__ makes, in order: an exception of the
\* clear-or-save step ends the run, so a step placed after it is not reached
DelEvents(steps, inserts, cache_event, raised) ==
    IF steps[1] = "flush" THEN inserts \o <<cache_event>>
    ELSE IF raised = "none" THEN <<cache_event>> \o inserts
    ELSE <<cache_event>>

\* the body of Chat.__del__: store the usage of both models, then clear or save
Destructor ==
    LET d == cfg.cache_dir
        dir == disk[d]
        m1 == FlushedModels[1]
        m2 == FlushedModels[2]
        db1 == insert_data(ledger, m1, token_usage[m1].input, token_usage[m1].output)
        db2 == insert_data(db1, m2, token_usage[m2].input, token_usage[m2].output)
        inserts == <<InsertEvent(m1), InsertEvent(m2)>>
        flushed(raised) == DelSteps[1] = "flush" \/ raised = "none"
    IN  /\ del_runs' = del_runs + 1
        /\ IF ClearsCache(cfg.private_mode, dir)
           THEN /\ disk' = [disk EXCEPT ![d] = clear_cache(dir)]
                /\ metadata' = metadata
                /\ ledger' = db2
                /\ del_info' = [pre |-> dir, branch |-> "clear", raised |-> "none",
                                fault |-> "none",
                                events |-> DelEvents(DelSteps, inserts, CacheEvent("clear"),
                                                     "none")]
           ELSE \E fault \in Faults :
                  LET r == save_cache(dir, metadata, fault) IN
                  /\ dir.exists \/ fault = "none"
                  /\ disk' = [disk EXCEPT ![d] = r.dir]
                  /\ metadata' = r.metadata
                  /\ ledger' = IF flushed(r.raised) THEN db2 ELSE ledger
                  /\ del_info' = [pre |-> dir, branch |-> "save", raised |-> r.raised,
                                  fault |-> fault,
                                  events |-> DelEvents(DelSteps, inserts, CacheEvent("save"),
                                                       r.raised)]

\* chat.__del__() called by the owner to close the session, between reply
\* streams; the object stays referenced ("closed") and is not used for
\* further replies; an exception reaches the caller
DelExplicit ==
    /\ pc \in {"active", "closed"}
    /\ gen_pc \notin {"created", "streaming"}
    /\ explicit_dels < MaxExplicitDel
    /\ explicit_dels' = explicit_dels + 1
    /\ pc' = "closed"
    /\ Destructor
    /\ error' = del_info'.raised
    /\ UNCHANGED <<via, cfg, token_usage, history, genVars, reloaded, disk0>>

\* the finalizer runs __del__ once nothing refers to the object any more (a
\* suspended generator still does); an exception is dropped by the interpreter
Finalize ==
    /\ pc \in {"active", "closed", "init_failed", "interrupted", "exited"}
    /\ gen_pc \notin {"created", "streaming"}
    /\ pc' = "gone"
    /\ Destructor
    /\ UNCHANGED <<via, cfg, token_usage, history, error, genVars, explicit_dels, reloaded,
                   disk0>>

\* chat.clear_cache() called on the live session, between reply streams
ClearCache ==
    /\ pc = "active"
    /\ gen_pc \notin {"created", "streaming"}
    /\ disk[cfg.cache_dir].exists
    /\ disk' = [disk EXCEPT ![cfg.cache_dir] = clear_cache(disk[cfg.cache_dir])]
    /\ UNCHANGED <<sessVars, token_usage, history, error, ledger, genVars, delVars, disk0>>

\* the directory a session made by from_cache with the default configuration
\* names after its own id; no other session's
OtherDefaultDir == "other-default"

\* what Chat.from_cache(cache_dir) gives for the configs file f: the
\* configuration of the session it constructs, or the exception that leaves it
Reconstructed(f) ==
    LET c == IF f.kind = "valid" THEN f.val ELSE DefaultCfg
        d == IF c.cache_dir = "None" THEN OtherDefaultDir ELSE c.cache_dir
    IN  CASE f.kind = "malformed" ->
                [kind |-> "raised", cfg |-> DefaultCfg, error |-> "JSONDecodeError"]
          [] f.kind = "invalid" ->
                [kind |-> "raised", cfg |-> DefaultCfg, error |-> "ValidationError"]
          [] f.kind \in {"absent", "valid"} ->
                IF c.context_model \in Registry
                THEN [kind |-> "session", cfg |-> [c EXCEPT !.cache_dir = d],
                      error |-> "none"]
                ELSE [kind |-> "raised", cfg |-> [c EXCEPT !.cache_dir = d],
                      error |-> "NotImplementedError"]

\* Chat.from_cache(cache_dir) on the cache directory of the session that is
\* gone: a second session is constructed from what the first one left; its
\* __init__ creates its cache directory before binding the context handler
Reopen ==
    /\ pc = "gone"
    /\ pc' = "reopened"
    /\ reloaded' = Reconstructed(disk[cfg.cache_dir].configs)
    /\ disk' = IF reloaded'.kind = "raised" /\ reloaded'.error # "NotImplementedError"
               THEN disk
               ELSE [x \in DirIds |-> IF x = reloaded'.cfg.cache_dir
                                      THEN [disk[x] EXCEPT !.exists = TRUE]
                                      ELSE disk[x]]
    /\ UNCHANGED <<via, cfg, metadata, token_usage, history, error, ledger, genVars,
                   explicit_dels, del_runs, del_info, disk0>>

Next ==
    \/ ChatInit
    \/ from_cache
    \/ respond_user_prompt
    \/ respond_system_prompt
    \/ GenStart
    \/ GenNext
    \/ GenClose
    \/ DelExplicit
    \/ Finalize
    \/ ClearCache

Spec == Init /\ [][Next]_vars

\* ------------------------------------------------------ interactive loop
\* what input() may return at the prompt of start()
Questions == Prompts \cup { <<" ">> }

\* chat.start(): the greeting is printed and the loop is entered
Start ==
    /\ pc = "active"
    /\ gen_pc = "none"
    /\ pc' = "started"
    /\ UNCHANGED <<via, cfg, metadata, token_usage, history, error, disk, ledger, genVars,
                   delVars, disk0>>

\* one turn of the loop up to the for statement: input().strip(), an empty
\* question skipped, otherwise respond_user_prompt(prompt=question)
StartQuestion ==
    /\ pc = "started"
    /\ gen_pc # "failed"
    /\ \E q \in Questions :
         IF Strip(q) = <<>>
         THEN UNCHANGED vars
         ELSE CallRespond("user", Strip(q), TRUE)

\* KeyboardInterrupt or EOFError at input() or while the reply is streamed:
\* the except clause of start() takes it and start() returns; the generator
\* of an unfinished reply is dropped
Interrupt ==
    /\ pc = "started"
    /\ gen_pc # "failed"
    /\ pc' = "interrupted"
    /\ gen_pc' = IF gen_pc \in {"created", "streaming"} THEN "closed" ELSE gen_pc
    /\ UNCHANGED <<via, cfg, metadata, token_usage, history, error, disk, ledger, args,
                   prompt_msg, prompt_context_request, conversation, upstream, upstream0,
                   upstream_ended, full_reply_content, yielded, tu0, hist0, prior, calls,
                   delVars, disk0>>

\* any other exception of the reply generator is not caught by start()
StartRaises ==
    /\ pc = "started"
    /\ gen_pc = "failed"
    /\ pc' = "exited"
    /\ UNCHANGED <<via, cfg, metadata, token_usage, history, error, disk, ledger, genVars,
                   delVars, disk0>>

\* a session that is constructed, runs start() and is dropped
NextStart ==
    \/ ChatInit
    \/ from_cache
    \/ Start
    \/ StartQuestion
    \/ GenStart
    \/ GenNext
    \/ Interrupt
    \/ StartRaises
    \/ Finalize

SpecStart == Init /\ [][NextStart]_vars

\* the session's life followed by a second construction from its directory
NextReopen ==
    \/ Next
    \/ Reopen

SpecReopen == Init /\ [][NextReopen]_vars

\* ------------------------------------------------------------------ claims
\* the reply generator of the current respond call has not been run to the
\* end of its stream
Live == gen_pc \in {"created", "streaming"}

OutputsOf(tu) == [m \in ModelNames |-> tu[m].output]
InputsOf(tu) == [m \in ModelNames |-> tu[m].input]

C2_NoPartialReplyCommit ==
    gen_pc # "none" =>
        /\ ~upstream_ended => history = hist0
        /\ history # hist0 => (upstream_ended /\ upstream.chunks = <<>> /\ gen_pc = "done")

\* C2 witness: a call with add_to_history abandoned or failed after a fragment
C2_Witness ==
    /\ gen_pc \in {"closed", "failed"}
    /\ args.add_to_history
    /\ Len(yielded) >= 1
    /\ history = hist0

\* C3: the message list handed to the streaming call is the base directive,
\* then exactly the messages the bound strategy's get_context returned for
\* this prompt, in that order, then the new prompt.
C3_AssembledRequest ==
    conversation # <<>> =>
        LET n == Len(conversation) IN
        /\ n >= 2
        /\ conversation[1] = base_directive
        /\ conversation[n] = prompt_msg
        /\ prompt_msg = prompt_as_msg(args.prompt, args.role)
        /\ SubSeq(conversation, 2, n - 1) = prompt_context_request.context_messages
        /\ prompt_context_request \in GetContexts(cfg.context_model, hist0, prompt_msg)

\* C3 witness: a request carrying context messages between directive and prompt
C3_Witness ==
    /\ Len(conversation) >= 4
    /\ prompt_context_request.context_messages # <<>>

C5_TeardownExactlyOnce ==
    /\ del_runs <= 1
    /\ del_info.raised = "none"
    /\ pc = "gone" =>
         \A m \in {MODEL, cfg.context_model} : ledger[m] = token_usage[m]

\* C6: teardown is idempotent: a second run of teardown (no write fault in
\* either run) leaves the cache directories and the ledger as the first run
\* left them.
C6_TeardownIdempotent ==
    [][(del_runs >= 1 /\ del_runs' = del_runs + 1
            /\ del_info.fault = "none" /\ del_info'.fault = "none")
        => (disk' = disk /\ ledger' = ledger)]_vars

\* C7: after a teardown without write fault: if private mode is on or the
\* cache directory held no files, the clear branch ran and the directory is
\* gone; in every other case configs.json and metadata.json are in it.
C7_PersistOrClear ==
    (del_runs >= 1 /\ del_info.fault = "none") =>
        LET post == disk[cfg.cache_dir] IN
        IF cfg.private_mode \/ NoEntries(del_info.pre)
        THEN del_info.branch = "clear" /\ ~post.exists
        ELSE /\ del_info.branch = "save"
             /\ post.configs = CfgFile(cfg)
             /\ post.metadata \notin {"absent", "malformed"}

\* C8: when construction fails on an unrecognized context model, the
\* session's cache directory (absent before) has not been created.
C8_NoCacheDirOnUnsupportedModel ==
    (pc = "init_failed" /\ ~disk0[cfg.cache_dir].exists) => ~disk[cfg.cache_dir].exists

\* C9: from_cache never fails the caller: it returns a session, and with
\* configs.json absent or malformed that session has the default configuration.
C9_FromCacheFallsBack ==
    via = "from_cache" =>
        /\ pc # "none"
        /\ disk0[UserDir].configs.kind \in {"absent", "malformed", "invalid"} =>
               cfg = [DefaultCfg EXCEPT !.cache_dir = ResolveDir(DefaultCfg.cache_dir)]

\* C10: no step of a session (respond calls drained or not, with or without
\* addToHistory, teardown) lowers an input or output token counter.
C10_CountersMonotone ==
    [][\A m \in ModelNames :
          /\ token_usage'[m].input >= token_usage[m].input
          /\ token_usage'[m].output >= token_usage[m].output]_vars

\* C10 witness: a torn-down session whose counters grew in two respond calls
C10_Witness ==
    /\ pc = "gone"
    /\ calls = 2
    /\ tu0[MODEL].input > 0
    /\ tu0[MODEL].output > 0
    /\ token_usage[MODEL].input > tu0[MODEL].input
    /\ token_usage[MODEL].output > tu0[MODEL].output

\* the sequence s begins with the sequence p
IsPrefix(p, s) == Len(p) <= Len(s) /\ SubSeq(s, 1, Len(p)) = p

C12_PrivateLeavesNoDirectory ==
    (del_runs >= 1 /\ cfg.private_mode /\ NoEntries(del_info.pre))
        => ~disk[cfg.cache_dir].exists

\* a private session that streamed a reply and never wrote a file was torn
\* down with its directory still there, empty, and the directory is gone
C12_Witness ==
    /\ pc = "gone" /\ del_runs = 1 /\ cfg.private_mode
    /\ del_info.pre = EmptyDir /\ del_info.branch = "clear"
    /\ calls >= 1
    /\ ~disk[cfg.cache_dir].exists

\* C13: after a teardown that persisted the configuration, from_cache on the
\* same directory yields a session whose configuration equals the persisted
\* one field for field (the session id is not a field of the configuration).
C13_ConfigRoundTrip ==
    (pc = "reopened" /\ del_info.branch = "save" /\ del_info.raised = "none")
        => /\ reloaded.kind = "session"
           /\ disk[cfg.cache_dir].configs = CfgFile(reloaded.cfg)

\* the round trip of C13 for the sessions whose construction bound a context
\* handler: what from_cache reconstructs is the configuration of the session
\* that persisted it
RoundTripOfBoundSession ==
    (/\ pc = "reopened" /\ del_info.branch = "save" /\ del_info.raised = "none"
     /\ cfg.context_model \in Registry)
        => reloaded = [kind |-> "session", cfg |-> cfg, error |-> "none"]

\* the usage of the two models as the ledger holds it after one more flush
FlushedInto(db) ==
    [m \in ModelNames |->
        IF m \in {MODEL, cfg.context_model}
        THEN [input |-> db[m].input + token_usage[m].input,
              output |-> db[m].output + token_usage[m].output]
        ELSE db[m]]

\* a cache directory that is cleared, or holds the session's configuration
\* and its metadata, both written
Orderly(d) ==
    \/ ~d.exists
    \/ d.configs = CfgFile(cfg) /\ d.metadata \notin {"absent", "malformed"}

\* C14: the teardown that follows an interruption of the interactive loop
\* (KeyboardInterrupt or EOF at the input prompt or while a reply is streamed)
\* is the orderly one: it flushes the usage to the ledger and leaves the cache
\* directory either cleared or with configuration and metadata both
\* persisted, never half-written.
C14_InterruptedTeardownOrderly ==
    [][(pc = "interrupted" /\ pc' = "gone")
          => /\ ledger' = FlushedInto(ledger)
             /\ Orderly(disk'[cfg.cache_dir])]_vars

\* C14 when no write to the disk fails during the teardown
InterruptedTeardownOrderlyWithoutFault ==
    [][(pc = "interrupted" /\ pc' = "gone" /\ del_info'.fault = "none")
          => /\ ledger' = FlushedInto(ledger)
             /\ Orderly(disk'[cfg.cache_dir])]_vars

\* C15: every run of the teardown makes one insert into the ledger for the
\* primary model and one for the context model, in this order, each carrying
\* the counts the session has accumulated for that model (also when both are
\* zero), and both inserts come before the cache directory is cleared or the
\* configuration and metadata are persisted; the ledger holds the session's
\* counts once per run.
C15_FlushBeforeClearOrSave ==
    del_runs >= 1 =>
        /\ Len(del_info.events) = 3
        /\ del_info.events[1] = InsertEvent(MODEL)
        /\ del_info.events[2] = InsertEvent(cfg.context_model)
        /\ del_info.events[3] = CacheEvent(del_info.branch)
        /\ del_info.branch \in {"clear", "save"}
        /\ \A m \in {MODEL, cfg.context_model} :
              /\ ledger[m].input = del_runs * token_usage[m].input
              /\ ledger[m].output = del_runs * token_usage[m].output

\* a teardown whose save_cache raised: the primary model's counts and the
\* zero counts of the context model were inserted before it
C15_Witness ==
    /\ del_runs = 1 /\ del_info.branch = "save" /\ del_info.raised # "none"
    /\ token_usage[MODEL].output > 0
    /\ token_usage[cfg.context_model] = ZeroUsage
    /\ del_info.events[2].usage = ZeroUsage
    /\ ledger[MODEL] = token_usage[MODEL]

\* C16: when get_context fails during a respond call (the store cannot be
\* opened), the error leaves the call before anything is committed: every
\* token counter has the value it had before the call, no request was
\* assembled and no streaming call was issued, nothing was delivered, and the
\* history is unchanged.
C16_ContextFailureCommitsNothing ==
    (gen_pc = "failed" /\ error = "ContextStoreUnavailable" /\ ~upstream_ended)
        => /\ token_usage = tu0
           /\ history = hist0
           /\ conversation = <<>>
           /\ upstream = NoUpstream
           /\ prompt_context_request = NoRequest
           /\ yielded = <<>>

\* the second respond call of a session fails in get_context, after a first
\* one left counters and a history entry behind
C16_Witness ==
    /\ gen_pc = "failed" /\ error = "ContextStoreUnavailable" /\ ~upstream_ended
    /\ calls = 2
    /\ hist0 # <<>>
    /\ tu0[MODEL].input > 0 /\ tu0[MODEL].output > 0

\* C17: a respond call delivers the fragments of the upstream stream one by
\* one and unbuffered: at every moment what the consumer has received,
\* followed by what the upstream has yet to deliver, is the upstream stream
\* as issued (same order, nothing dropped or duplicated, and nothing pulled
\* that was not delivered); the reply stream is suspended only after a
\* delivery, and it ends exactly when the upstream stream has signalled its
\* end, with every fragment delivered.
C17_IncrementalInOrder ==
    conversation # <<>> =>
        /\ yielded \o upstream.chunks = upstream0.chunks
        /\ gen_pc = "streaming" => yielded # <<>> /\ ~upstream_ended
        /\ gen_pc = "done" => upstream_ended /\ yielded = upstream0.chunks
        /\ upstream_ended => upstream.chunks = <<>> /\ ~upstream0.fail

\* a reply of two fragments: the first one is with the consumer while the
\* second one is still upstream
C17_Witness ==
    /\ gen_pc = "streaming"
    /\ Len(upstream0.chunks) = 2
    /\ yielded = <<upstream0.chunks[1]>>
    /\ upstream.chunks = <<upstream0.chunks[2]>>

\* C18: after a fully drained respond call with add_to_history the entry
\* committed to the history is the pair of the prompt message exactly as it
\* was sent upstream (the last element of the request) and an assistant
\* message whose content is the concatenation of the fragments the caller
\* received, in the order received; the primary model's output counter grew
\* by the token count of that same assistant message, once.
C18_CommittedEntryIsWhatWasStreamed ==
    (gen_pc = "done" /\ args.add_to_history) =>
        LET sent == conversation[Len(conversation)]
            reply == Msg("assistant", Flatten(yielded))
        IN  /\ sent = prompt_as_msg(args.prompt, args.role)
            /\ history = Append(hist0, <<sent, reply>>)
            /\ token_usage[MODEL].output
                 = tu0[MODEL].output + get_n_tokens_from_msgs(<<reply>>)

\* a reply of two fragments was drained and committed by the second respond
\* call of a session
C18_Witness ==
    /\ gen_pc = "done" /\ args.add_to_history
    /\ Len(yielded) = 2
    /\ calls = 2
    /\ tu0[MODEL].output > 0
    /\ Len(history) = Len(hist0) + 1

\* C19: a fully drained respond call with add_to_history false leaves the
\* history and the context model's output counter as they were before the
\* call, while the context model's input counter, the primary model's input
\* counter and the primary model's output counter are charged exactly as
\* they are with add_to_history true: the cost of building the context, the
\* token count of the request, the token count of the full reply. The next
\* prompt's context is built from the unchanged history, so the exchange is
\* not in it.
C19_NoCommitWithoutAddToHistory ==
    (gen_pc = "done" /\ ~args.add_to_history) =>
        LET cm == cfg.context_model
            reply == Msg("assistant", full_reply_content)
        IN  /\ history = hist0
            /\ token_usage[cm].output = tu0[cm].output
            /\ token_usage[cm].input
                 = tu0[cm].input + SumValues(prompt_context_request.tokens_usage)
            /\ token_usage[MODEL].input
                 = tu0[MODEL].input + get_n_tokens_from_msgs(conversation)
            /\ token_usage[MODEL].output
                 = tu0[MODEL].output + get_n_tokens_from_msgs(<<reply>>)

\* the second respond call of an embedding session, drained without
\* add_to_history: building its context had a cost and the history it found
\* is the history it leaves
C19_Witness ==
    /\ gen_pc = "done" /\ ~args.add_to_history
    /\ cfg.context_model = Embedding
    /\ calls = 2
    /\ hist0 # <<>> /\ history = hist0
    /\ SumValues(prompt_context_request.tokens_usage) > 0
    /\ full_reply_content # <<>>

\* C20: in a session of the full-history strategy the context model's input
\* and output counters are zero after any sequence of respond calls (all
\* usage is charged to the primary model), and a teardown flushes a row of
\* zero usage for the context model.
C20_FullHistoryChargesNothing ==
    (cfg.context_model = FullHistory /\ pc \notin {"new", "none"}) =>
        /\ token_usage[FullHistory] = ZeroUsage
        /\ \A m \in ModelNames \ {MODEL} : token_usage[m] = ZeroUsage
        /\ ledger[FullHistory] = ZeroUsage
        /\ del_runs >= 1 =>
              del_info.events[2]
                = [op |-> "insert", model |-> FullHistory, usage |-> ZeroUsage]

\* a full-history session answered two prompts, the second with the first
\* exchange as its context, and was torn down
C20_Witness ==
    /\ cfg.context_model = FullHistory
    /\ pc = "gone" /\ del_runs = 1
    /\ calls = 2 /\ gen_pc = "done"
    /\ hist0 # <<>>
    /\ token_usage[MODEL].input > 0 /\ token_usage[MODEL].output > 0
    /\ ledger[MODEL] = token_usage[MODEL]

====
